---- MODULE Spec2Model ----
(***************************************************************************)
(* Model of src/controllers/weatherController.js: the request handler      *)
(* getWeatherByCity behind GET /weather/:city (src/routes/weather.js).     *)
(*                                                                         *)
(* Text: a city token is a sequence of one-character strings, so that      *)
(* toLowerCase works character by character.  Every other JavaScript       *)
(* string is a TLA+ string; a character outside ASCII is written as its    *)
(* \uXXXX escape (the source's 0xB0 "C" suffix is "\\u00B0C").  A          *)
(* JavaScript value whose type the code does not fix is a record tagged    *)
(* by its type in field t.                                                 *)
(***************************************************************************)
EXTENDS Integers, Sequences, FiniteSets, TLC

VARIABLES
    CWA_API_KEY,   \* process.env.CWA_API_KEY, read once when the module loads
    pc,            \* "idle" | "awaiting" (axios.get in flight) | "done"
    city,          \* req.params.city of the invocation
    cwaCity,       \* the handler's local cwaCity
    outbound,      \* the axios.get calls of the invocation, in order
    settled,       \* how the outbound call settled
    built,         \* weatherData.forecasts when the handler left the try block
    responses,     \* the res.status(..).json(..) calls of the invocation, in order
    consoleErrors, \* number of console.error lines of the invocation
    rejected       \* the handler's promise rejected (an exception left the catch block)

vars ==
    <<CWA_API_KEY, pc, city, cwaCity, outbound, settled, built, responses,
      consoleErrors, rejected>>

(***************************************************************************)
(* JavaScript values.                                                      *)
(***************************************************************************)
Undefined == [t |-> "undefined"]

Null == [t |-> "null"]

Str(s) == [t |-> "string", s |-> s]

NativeFunction(name) == [t |-> "function", name |-> name]

PlainObject == [t |-> "object"]

\* ToBoolean, as `!x`, `if (x)` and `a || b` apply it.
Truthy(v) ==
    CASE v.t = "undefined" -> FALSE
      [] v.t = "null" -> FALSE
      [] v.t = "string" -> v.s # ""
      [] OTHER -> TRUE

\* ToString, as a template literal applies it.
JsToString(v) ==
    CASE v.t = "string" -> v.s
      [] v.t = "undefined" -> "undefined"
      [] v.t = "null" -> "null"
      [] v.t = "function" -> "function " \o v.name \o "() { [native code] }"
      [] OTHER -> "[object Object]"

(***************************************************************************)
(* String.prototype.toLowerCase: the Unicode default lower-casing, which   *)
(* is neither ASCII-only nor length-preserving.  A token is a sequence of  *)
(* UTF-16 code units; one outside ASCII is the string of its \uXXXX        *)
(* escape.  The alphabet modelled is ASCII, Latin-1 and the code units     *)
(* named below; a code unit outside it is taken to have no case mapping.   *)
(***************************************************************************)
AsciiUpperToLower ==
    ("A" :> "a") @@ ("B" :> "b") @@ ("C" :> "c") @@ ("D" :> "d") @@ ("E" :> "e") @@
    ("F" :> "f") @@ ("G" :> "g") @@ ("H" :> "h") @@ ("I" :> "i") @@ ("J" :> "j") @@
    ("K" :> "k") @@ ("L" :> "l") @@ ("M" :> "m") @@ ("N" :> "n") @@ ("O" :> "o") @@
    ("P" :> "p") @@ ("Q" :> "q") @@ ("R" :> "r") @@ ("S" :> "s") @@ ("T" :> "t") @@
    ("U" :> "u") @@ ("V" :> "v") @@ ("W" :> "w") @@ ("X" :> "x") @@ ("Y" :> "y") @@
    ("Z" :> "z")

KelvinSign == "\\u212A"

CapitalIWithDot == "\\u0130"

CombiningDot == "\\u0307"

CapitalSigma == "\\u03A3"

SmallSigma == "\\u03C3"

FinalSigma == "\\u03C2"

\* Latin-1: U+00C0..U+00DE without the multiplication sign U+00D7.
Latin1UpperToLower ==
    ("\\u00C0" :> "\\u00E0") @@ ("\\u00C1" :> "\\u00E1") @@ ("\\u00C2" :> "\\u00E2") @@
    ("\\u00C3" :> "\\u00E3") @@ ("\\u00C4" :> "\\u00E4") @@ ("\\u00C5" :> "\\u00E5") @@
    ("\\u00C6" :> "\\u00E6") @@ ("\\u00C7" :> "\\u00E7") @@ ("\\u00C8" :> "\\u00E8") @@
    ("\\u00C9" :> "\\u00E9") @@ ("\\u00CA" :> "\\u00EA") @@ ("\\u00CB" :> "\\u00EB") @@
    ("\\u00CC" :> "\\u00EC") @@ ("\\u00CD" :> "\\u00ED") @@ ("\\u00CE" :> "\\u00EE") @@
    ("\\u00CF" :> "\\u00EF") @@ ("\\u00D0" :> "\\u00F0") @@ ("\\u00D1" :> "\\u00F1") @@
    ("\\u00D2" :> "\\u00F2") @@ ("\\u00D3" :> "\\u00F3") @@ ("\\u00D4" :> "\\u00F4") @@
    ("\\u00D5" :> "\\u00F5") @@ ("\\u00D6" :> "\\u00F6") @@ ("\\u00D8" :> "\\u00F8") @@
    ("\\u00D9" :> "\\u00F9") @@ ("\\u00DA" :> "\\u00FA") @@ ("\\u00DB" :> "\\u00FB") @@
    ("\\u00DC" :> "\\u00FC") @@ ("\\u00DD" :> "\\u00FD") @@ ("\\u00DE" :> "\\u00FE")

\* One-to-one mappings outside Latin-1: KELVIN SIGN to k, ANGSTROM SIGN to a
\* with ring, fullwidth T, Greek sigma.
OtherUpperToLower ==
    (KelvinSign :> "k") @@ ("\\u212B" :> "\\u00E5") @@ ("\\uFF34" :> "\\uFF54") @@
    (CapitalSigma :> SmallSigma)

UpperToLower == AsciiUpperToLower @@ Latin1UpperToLower @@ OtherUpperToLower

\* The lower-casing of the one-character string c: U+0130 becomes two code
\* units.
LowerChar(c) ==
    IF c = CapitalIWithDot
      THEN <<"i", CombiningDot>>
      ELSE IF c \in DOMAIN UpperToLower THEN <<UpperToLower[c]>> ELSE <<c>>

\* The Unicode properties Cased and Case_Ignorable on the alphabet.
Cased ==
    DOMAIN UpperToLower \cup {UpperToLower[u] : u \in DOMAIN UpperToLower}
        \cup {CapitalIWithDot, FinalSigma,
              "\\u00AA", "\\u00B5", "\\u00BA", "\\u00DF", "\\u00FF"}

\* In ASCII: apostrophe, full stop, colon, circumflex and the grave accent
\* U+0060 (written as its escape).  Outside ASCII: the diacritics and the
\* soft hyphen of Latin-1, the combining acute and dot, the right quote.
CaseIgnorable ==
    {"'", ".", ":", "^", "\\u0060",
     "\\u00A8", "\\u00AD", "\\u00AF", "\\u00B4", "\\u00B7", "\\u00B8",
     "\\u0301", CombiningDot, "\\u2019"}

\* The condition Final_Sigma at position i of s: a cased letter before it,
\* none after it, case-ignorable characters skipped on both sides.
IsFinalSigma(s, i) ==
    /\ \E j \in 1..(i - 1) :
          s[j] \in Cased /\ \A k \in (j + 1)..(i - 1) : s[k] \in CaseIgnorable
    /\ ~\E j \in (i + 1)..Len(s) :
          s[j] \in Cased /\ \A k \in (i + 1)..(j - 1) : s[k] \in CaseIgnorable

\* A lookup that forgets to lower-case the token.
toLowerCaseSkipped(s) == s

RECURSIVE LowerFrom(_, _)
LowerFrom(s, i) ==
    IF i > Len(s)
      THEN <<>>
      ELSE (IF s[i] = CapitalSigma /\ IsFinalSigma(s, i)
              THEN <<FinalSigma>>
              ELSE LowerChar(s[i])) \o LowerFrom(s, i + 1)

toLowerCase(s) == LowerFrom(s, 1)

LowerToUpper == [l \in {AsciiUpperToLower[u] : u \in DOMAIN AsciiUpperToLower} |->
                    CHOOSE u \in DOMAIN AsciiUpperToLower : AsciiUpperToLower[u] = l]

(***************************************************************************)
(* The alias table: the own properties of the object literal cityMap, as   *)
(* <<key, value>> pairs in source order.                                   *)
(***************************************************************************)
cityMap ==
    {
       <<<<"t","a","i","p","e","i">>, "\\u81FA\\u5317\\u5E02">>,
       <<<<"T","a","i","p","e","i">>, "\\u81FA\\u5317\\u5E02">>,
       <<<<"t","a","o","y","u","a","n">>, "\\u6843\\u5712\\u5E02">>,
       <<<<"T","a","o","y","u","a","n">>, "\\u6843\\u5712\\u5E02">>,
       <<<<"t","a","i","c","h","u","n","g">>, "\\u81FA\\u4E2D\\u5E02">>,
       <<<<"T","a","i","c","h","u","n","g">>, "\\u81FA\\u4E2D\\u5E02">>,
       <<<<"t","a","i","n","a","n">>, "\\u81FA\\u5357\\u5E02">>,
       <<<<"T","a","i","n","a","n">>, "\\u81FA\\u5357\\u5E02">>,
       <<<<"k","a","o","h","s","i","u","n","g">>, "\\u9AD8\\u96C4\\u5E02">>,
       <<<<"K","a","o","h","s","i","u","n","g">>, "\\u9AD8\\u96C4\\u5E02">>,
       <<<<"k","e","e","l","u","n","g">>, "\\u57FA\\u9686\\u5E02">>,
       <<<<"K","e","e","l","u","n","g">>, "\\u57FA\\u9686\\u5E02">>,
       <<<<"h","s","i","n","c","h","u">>, "\\u65B0\\u7AF9\\u5E02">>,
       <<<<"H","s","i","n","c","h","u">>, "\\u65B0\\u7AF9\\u5E02">>,
       <<<<"n","e","w","t","a","i","p","e","i">>, "\\u65B0\\u5317\\u5E02">>,
       <<<<"N","e","w","T","a","i","p","e","i">>, "\\u65B0\\u5317\\u5E02">>,
       <<<<"h","s","i","n","c","h","u","c","o","u","n","t","y">>, "\\u65B0\\u7AF9\\u7E23">>,
       <<<<"H","s","i","n","c","h","u","C","o","u","n","t","y">>, "\\u65B0\\u7AF9\\u7E23">>,
       <<<<"m","i","a","o","l","i">>, "\\u82D7\\u6817\\u7E23">>,
       <<<<"M","i","a","o","l","i">>, "\\u82D7\\u6817\\u7E23">>,
       <<<<"c","h","a","n","g","h","u","a">>, "\\u5F70\\u5316\\u7E23">>,
       <<<<"C","h","a","n","g","h","u","a">>, "\\u5F70\\u5316\\u7E23">>,
       <<<<"n","a","n","t","o","u">>, "\\u5357\\u6295\\u7E23">>,
       <<<<"N","a","n","t","o","u">>, "\\u5357\\u6295\\u7E23">>,
       <<<<"y","u","n","l","i","n">>, "\\u96F2\\u6797\\u7E23">>,
       <<<<"Y","u","n","l","i","n">>, "\\u96F2\\u6797\\u7E23">>,
       <<<<"c","h","i","a","y","i">>, "\\u5609\\u7FA9\\u5E02">>,
       <<<<"C","h","i","a","y","i">>, "\\u5609\\u7FA9\\u5E02">>,
       <<<<"c","h","i","a","y","i","c","o","u","n","t","y">>, "\\u5609\\u7FA9\\u7E23">>,
       <<<<"C","h","i","a","y","i","C","o","u","n","t","y">>, "\\u5609\\u7FA9\\u7E23">>,
       <<<<"p","i","n","g","t","u","n","g">>, "\\u5C4F\\u6771\\u7E23">>,
       <<<<"P","i","n","g","t","u","n","g">>, "\\u5C4F\\u6771\\u7E23">>,
       <<<<"y","i","l","a","n">>, "\\u5B9C\\u862D\\u7E23">>,
       <<<<"Y","i","l","a","n">>, "\\u5B9C\\u862D\\u7E23">>,
       <<<<"h","u","a","l","i","e","n">>, "\\u82B1\\u84EE\\u7E23">>,
       <<<<"H","u","a","l","i","e","n">>, "\\u82B1\\u84EE\\u7E23">>,
       <<<<"t","a","i","t","u","n","g">>, "\\u81FA\\u6771\\u7E23">>,
       <<<<"T","a","i","t","u","n","g">>, "\\u81FA\\u6771\\u7E23">>,
       <<<<"p","e","n","g","h","u">>, "\\u6F8E\\u6E56\\u7E23">>,
       <<<<"P","e","n","g","h","u">>, "\\u6F8E\\u6E56\\u7E23">>,
       <<<<"k","i","n","m","e","n">>, "\\u91D1\\u9580\\u7E23">>,
       <<<<"K","i","n","m","e","n">>, "\\u91D1\\u9580\\u7E23">>,
       <<<<"l","i","e","n","c","h","i","a","n","g">>, "\\u9023\\u6C5F\\u7E23">>,
       <<<<"L","i","e","n","c","h","i","a","n","g">>, "\\u9023\\u6C5F\\u7E23">>
    }

cityMapKeys == {e[1] : e \in cityMap}

\* Object.prototype, which the object literal inherits from: the properties a
\* lookup by an arbitrary key falls through to.
ObjectPrototype ==
    (<<"c","o","n","s","t","r","u","c","t","o","r">> :> NativeFunction("Object")) @@
    (<<"_","_","p","r","o","t","o","_","_">> :> PlainObject) @@
    (<<"t","o","S","t","r","i","n","g">> :> NativeFunction("toString")) @@
    (<<"v","a","l","u","e","O","f">> :> NativeFunction("valueOf")) @@
    (<<"h","a","s","O","w","n","P","r","o","p","e","r","t","y">> :>
        NativeFunction("hasOwnProperty")) @@
    (<<"i","s","P","r","o","t","o","t","y","p","e","O","f">> :>
        NativeFunction("isPrototypeOf")) @@
    (<<"t","o","L","o","c","a","l","e","S","t","r","i","n","g">> :>
        NativeFunction("toLocaleString")) @@
    (<<"p","r","o","p","e","r","t","y","I","s","E","n","u","m","e","r","a","b","l","e">> :>
        NativeFunction("propertyIsEnumerable")) @@
    (<<"_","_","d","e","f","i","n","e","G","e","t","t","e","r","_","_">> :>
        NativeFunction("__defineGetter__")) @@
    (<<"_","_","d","e","f","i","n","e","S","e","t","t","e","r","_","_">> :>
        NativeFunction("__defineSetter__")) @@
    (<<"_","_","l","o","o","k","u","p","G","e","t","t","e","r","_","_">> :>
        NativeFunction("__lookupGetter__")) @@
    (<<"_","_","l","o","o","k","u","p","S","e","t","t","e","r","_","_">> :>
        NativeFunction("__lookupSetter__"))

\* cityMap[key]: an own property, else an inherited one, else undefined.
cityMapGet(key) ==
    IF key \in cityMapKeys
      THEN Str((CHOOSE e \in cityMap : e[1] = key)[2])
      ELSE IF key \in DOMAIN ObjectPrototype
             THEN ObjectPrototype[key]
             ELSE Undefined

(***************************************************************************)
(* Responses.  res.json without res.status answers with status 200.        *)
(***************************************************************************)
Response(status, body) == [status |-> status, body |-> body]

DefaultStatus == 200

ConfigErrorResponse ==
    Response(500,
        [error |-> "\\u4F3A\\u670D\\u5668\\u8A2D\\u5B9A\\u932F\\u8AA4",
         message |-> "\\u8ACB\\u5728 .env \\u6A94\\u6848\\u4E2D\\u8A2D\\u5B9A CWA_API_KEY"])

UnsupportedCityResponse ==
    Response(400, [error |-> "\\u4E0D\\u652F\\u63F4\\u7684\\u57CE\\u5E02"])

NoDataMessage(name) ==
    "\\u7121\\u6CD5\\u53D6\\u5F97" \o JsToString(name) \o "\\u5929\\u6C23\\u8CC7\\u6599"

NoDataResponse(name) ==
    Response(404,
        [error |-> "\\u67E5\\u7121\\u8CC7\\u6599", message |-> NoDataMessage(name)])

FallbackMessage == "\\u7121\\u6CD5\\u53D6\\u5F97\\u5929\\u6C23\\u8CC7\\u6599"

RetryLaterMessage ==
    "\\u7121\\u6CD5\\u53D6\\u5F97\\u5929\\u6C23\\u8CC7\\u6599\\uFF0C\\u8ACB\\u7A0D\\u5F8C\\u518D\\u8A66"

ServerErrorResponse ==
    Response(500,
        [error |-> "\\u4F3A\\u670D\\u5668\\u932F\\u8AA4", message |-> RetryLaterMessage])

SuccessResponse(weatherData) ==
    Response(DefaultStatus, [success |-> TRUE, data |-> weatherData])

(***************************************************************************)
(* The outbound call: axios.get(url, {params}).                            *)
(***************************************************************************)
CWA_API_BASE_URL == "https://opendata.cwa.gov.tw/api"

AxiosGet(key, name) ==
    [url |-> CWA_API_BASE_URL \o "/v1/rest/datastore/F-C0032-001",
     params |-> [Authorization |-> key, locationName |-> name]]

(***************************************************************************)
(* Normalization: the loop over the time windows of the first element.     *)
(* An operator that can throw returns [thrown |-> TRUE, ...]; a TypeError  *)
(* is raised by a property read on undefined.  Indices are the source's,   *)
(* from 0; a TLA+ sequence is indexed from 1.                              *)
(***************************************************************************)
NewForecast(window) ==
    [startTime |-> window.startTime, endTime |-> window.endTime,
     weather |-> "", rain |-> "", minTemp |-> "", maxTemp |-> "",
     comfort |-> "", windSpeed |-> ""]

\* The switch with the two temperature cases exchanged.
AssignFieldSwapped(forecast, elementName, value) ==
    CASE elementName = "Wx" -> [forecast EXCEPT !.weather = value.parameterName]
      [] elementName = "PoP" -> [forecast EXCEPT !.rain = value.parameterName \o "%"]
      [] elementName = "MinT" ->
            [forecast EXCEPT !.maxTemp = value.parameterName \o "\\u00B0C"]
      [] elementName = "MaxT" ->
            [forecast EXCEPT !.minTemp = value.parameterName \o "\\u00B0C"]
      [] elementName = "CI" -> [forecast EXCEPT !.comfort = value.parameterName]
      [] elementName = "WS" -> [forecast EXCEPT !.windSpeed = value.parameterName]
      [] OTHER -> forecast

\* The switch on element.elementName.
AssignField(forecast, elementName, value) ==
    CASE elementName = "Wx" -> [forecast EXCEPT !.weather = value.parameterName]
      [] elementName = "PoP" -> [forecast EXCEPT !.rain = value.parameterName \o "%"]
      [] elementName = "MinT" ->
            [forecast EXCEPT !.minTemp = value.parameterName \o "\\u00B0C"]
      [] elementName = "MaxT" ->
            [forecast EXCEPT !.maxTemp = value.parameterName \o "\\u00B0C"]
      [] elementName = "CI" -> [forecast EXCEPT !.comfort = value.parameterName]
      [] elementName = "WS" -> [forecast EXCEPT !.windSpeed = value.parameterName]
      [] OTHER -> forecast

\* One call of the forEach callback: element.time[i].parameter throws when the
\* element has no window i.
ElementCallback(forecast, element, i) ==
    IF i + 1 > Len(element.time)
      THEN [thrown |-> TRUE, forecast |-> forecast]
      ELSE [thrown |-> FALSE,
            forecast |-> AssignField(forecast, element.elementName,
                                     element.time[i + 1].parameter)]

RECURSIVE ForEachElement(_, _, _, _)
ForEachElement(forecast, weatherElements, k, i) ==
    IF k > Len(weatherElements)
      THEN [thrown |-> FALSE, forecast |-> forecast]
      ELSE LET r == ElementCallback(forecast, weatherElements[k], i)
           IN  IF r.thrown
                 THEN r
                 ELSE ForEachElement(r.forecast, weatherElements, k + 1, i)

RECURSIVE ForecastLoop(_, _, _, _)
ForecastLoop(forecasts, weatherElements, i, timeCount) ==
    IF i >= timeCount
      THEN [thrown |-> FALSE, forecasts |-> forecasts]
      ELSE LET r == ForEachElement(NewForecast(weatherElements[1].time[i + 1]),
                                   weatherElements, 1, i)
           IN  IF r.thrown
                 THEN [thrown |-> TRUE, forecasts |-> forecasts]
                 ELSE ForecastLoop(Append(forecasts, r.forecast), weatherElements,
                                   i + 1, timeCount)

(***************************************************************************)
(* The try block after the await.  The result names the response sent (at  *)
(* most one), whether a TypeError was thrown, and weatherData.forecasts as *)
(* it stood when the block was left.                                       *)
(***************************************************************************)
Threw(forecasts) == [thrown |-> TRUE, sent |-> <<>>, forecasts |-> forecasts]

Sent(response, forecasts) ==
    [thrown |-> FALSE, sent |-> <<response>>, forecasts |-> forecasts]

\* A normalization that answers with the entries built before a failure.
NormalizeKeepsPartial(locationData, datasetDescription) ==
    LET weatherElements == locationData.weatherElement
    IN  IF weatherElements.t = "undefined" \/ Len(weatherElements.items) = 0
          THEN Threw(<<>>)
          ELSE LET timeCount == Len(weatherElements.items[1].time)
                   loop == ForecastLoop(<<>>, weatherElements.items, 0, timeCount)
               IN  Sent(SuccessResponse(
                            [city |-> locationData.locationName,
                             updateTime |-> datasetDescription,
                             forecasts |-> loop.forecasts]),
                        loop.forecasts)

Normalize(locationData, datasetDescription) ==
    LET weatherElements == locationData.weatherElement
    IN  IF weatherElements.t = "undefined" \/ Len(weatherElements.items) = 0
          THEN Threw(<<>>)
          ELSE LET timeCount == Len(weatherElements.items[1].time)
                   loop == ForecastLoop(<<>>, weatherElements.items, 0, timeCount)
               IN  IF loop.thrown
                     THEN Threw(loop.forecasts)
                     ELSE Sent(SuccessResponse(
                                   [city |-> locationData.locationName,
                                    updateTime |-> datasetDescription,
                                    forecasts |-> loop.forecasts]),
                               loop.forecasts)

AfterAwait(data, name) ==
    IF data.t # "object" \/ data.records.t = "undefined"
         \/ data.records.location.t = "undefined"
      THEN Threw(<<>>)
      ELSE IF Len(data.records.location.items) = 0
             THEN Sent(NoDataResponse(name), <<>>)
             ELSE Normalize(data.records.location.items[1],
                            data.records.datasetDescription)

(***************************************************************************)
(* The catch block.  error.response is undefined for a TypeError and for   *)
(* an outbound call that got no response.  Reading .message of an          *)
(* undefined or null error.response.data throws out of the catch block.    *)
(***************************************************************************)
MessageOf(data) ==
    IF data.t = "object" /\ data.hasMessage THEN Str(data.message) ELSE Undefined

OrElse(a, b) == IF Truthy(a) THEN a ELSE b

UpstreamErrorResponse(status, data) ==
    Response(status,
        [error |-> "CWA API \\u932F\\u8AA4",
         message |-> OrElse(MessageOf(data), Str(FallbackMessage)).s,
         details |-> data])

\* A catch block that reads error.response.status without the guard.
CatchUnguarded(error) ==
    IF error.response.t = "undefined" \/ error.response.data.t \in {"undefined", "null"}
      THEN [thrown |-> TRUE, sent |-> <<>>]
      ELSE [thrown |-> FALSE,
            sent |-> <<UpstreamErrorResponse(error.response.status,
                                             error.response.data)>>]

Catch(error) ==
    IF error.response.t # "undefined"
      THEN IF error.response.data.t \in {"undefined", "null"}
             THEN [thrown |-> TRUE, sent |-> <<>>]
             ELSE [thrown |-> FALSE,
                   sent |-> <<UpstreamErrorResponse(error.response.status,
                                                    error.response.data)>>]
      ELSE [thrown |-> FALSE, sent |-> <<ServerErrorResponse>>]

TypeError == [response |-> Undefined]

NetworkError == [response |-> Undefined]

AxiosError(status, data) ==
    [response |-> [t |-> "object", status |-> status, data |-> data]]

(***************************************************************************)
(* Bounds of the inputs.                                                   *)
(***************************************************************************)
MaxElems == 2

MaxTimes == 2

(***************************************************************************)
(* Inputs: city tokens.                                                    *)
(***************************************************************************)
Osaka == <<"o","s","a","k","a">>

Constructor == <<"c","o","n","s","t","r","u","c","t","o","r">>

ToStringToken == <<"t","o","S","t","r","i","n","g">>

Tokyo == <<"T","o","k","y","o">>

Proto == <<"_","_","p","r","o","t","o","_","_">>

KelvinKaohsiung == <<KelvinSign,"a","o","h","s","i","u","n","g">>

DottedTaipei == <<"T","A",CapitalIWithDot,"P","E","I">>

SigmaToken == <<"T","A",CapitalSigma>>

Tokens ==
    {<<"T","a","i","p","e","i">>, KelvinKaohsiung, DottedTaipei,
     Osaka, Tokyo, ToStringToken, Constructor, Proto}

(***************************************************************************)
(* Inputs: what the upstream answers.                                      *)
(***************************************************************************)
Digits == <<"0", "1", "2", "3", "4", "5", "6", "7", "8", "9">>

TwoDigits(n) == Digits[((n \div 10) % 10) + 1] \o Digits[(n % 10) + 1]

\* The n-th 12-hour boundary of the forecast.
ClockAt(n) ==
    "2025-01-" \o TwoDigits(1 + (n \div 2)) \o
        (IF n % 2 = 0 THEN " 06:00:00" ELSE " 18:00:00")

ElementNames == {"Wx", "PoP", "MinT", "MaxT", "CI", "WS"}

UnknownElementName == "UVI"

ParameterName(elementName, n) ==
    CASE elementName = "Wx" ->
            IF n % 2 = 0 THEN "\\u6674\\u6642\\u591A\\u96F2" ELSE "\\u591A\\u96F2"
      [] elementName = "PoP" -> TwoDigits(10 * (n % 10))
      [] elementName = "MinT" -> TwoDigits(20 + n)
      [] elementName = "MaxT" -> TwoDigits(27 + n)
      [] elementName = "CI" ->
            IF n % 2 = 0 THEN "\\u8212\\u9069" ELSE "\\u60B6\\u71B1"
      [] elementName = "WS" -> "\\u504F\\u5357\\u98A8 " \o TwoDigits(n)
      [] OTHER -> TwoDigits(n)

Window(elementName, n) ==
    [startTime |-> ClockAt(n), endTime |-> ClockAt(n + 1),
     parameter |-> [parameterName |-> ParameterName(elementName, n)]]

\* An element reporting len windows from the shift-th boundary on.
Element(elementName, len, shift) ==
    [elementName |-> elementName,
     time |-> [i \in 1..len |-> Window(elementName, shift + i - 1)]]

Shifts == {0, 1}

Elements ==
    {Element(n, len, s) :
        n \in ElementNames \cup {UnknownElementName}, len \in 0..MaxTimes, s \in Shifts}

CanonicalOrder == <<"Wx", "PoP", "MinT", "MaxT", "CI", "WS">>

\* The documents of the upstream's own shape: the six elements, aligned; the
\* same without one of them; the same with one of them a window short.
FullLists ==
    {[k \in 1..6 |-> Element(CanonicalOrder[k], len, 0)] : len \in 0..MaxTimes}
    \cup
    {[k \in 1..5 |->
        Element(CanonicalOrder[IF k < gone THEN k ELSE k + 1], MaxTimes, 0)] :
        gone \in 1..6}
    \cup
    {[k \in 1..6 |->
        Element(CanonicalOrder[k], IF k = short THEN MaxTimes - 1 ELSE MaxTimes, 0)] :
        short \in 1..6}

Array(items) == [t |-> "array", items |-> items]

LocationNames == {"\\u81FA\\u5317\\u5E02", "\\u9AD8\\u96C4\\u5E02"}

Location(locationName, weatherElement) ==
    [locationName |-> locationName, weatherElement |-> weatherElement]

DatasetDescription == "\\u4E09\\u5341\\u516D\\u5C0F\\u6642\\u5929\\u6C23\\u9810\\u5831"

DecoyLocation == Location("\\u9023\\u6C5F\\u7E23", Array(<<Element("Wx", 1, 1)>>))

Body(location) ==
    [t |-> "object",
     records |-> [t |-> "object", datasetDescription |-> DatasetDescription,
                  location |-> location]]

\* Bodies without a usable first location.
BodiesWithoutLocation ==
    {Str("<html></html>"), [t |-> "object", records |-> Undefined],
     Body(Undefined), Body(Array(<<>>))}
    \cup {Body(Array(<<Location(n, Undefined)>>)) : n \in LocationNames}

UpstreamStatuses == {401, 404, 500, 503}

ErrorBodies ==
    {Undefined, Null, Str(""), Str("Service Unavailable"),
     [t |-> "object", hasMessage |-> FALSE, message |-> ""],
     [t |-> "object", hasMessage |-> TRUE, message |-> ""],
     [t |-> "object", hasMessage |-> TRUE, message |-> "maintenance"]}

Keys == {Undefined, Str(""), Str("CWA-TEST-KEY")}

(***************************************************************************)
(* The state machine: one invocation of getWeatherByCity at a time, from   *)
(* the call to the response; NewInvocation starts the next one afresh.     *)
(***************************************************************************)
NotSettled == [kind |-> "none"]

Init ==
    /\ CWA_API_KEY \in Keys
    /\ pc = "idle"
    /\ city = <<>>
    /\ cwaCity = Undefined
    /\ outbound = <<>>
    /\ settled = NotSettled
    /\ built = <<>>
    /\ responses = <<>>
    /\ consoleErrors = 0
    /\ rejected = FALSE

\* A handler without the credential check.
BeforeAwaitNoKeyCheck(key, token) ==
    LET cityParam == toLowerCase(token)
        name == cityMapGet(cityParam)
    IN  IF ~Truthy(name)
          THEN [sent |-> <<UnsupportedCityResponse>>, calls |-> <<>>, cwaCity |-> name]
          ELSE [sent |-> <<>>, calls |-> <<AxiosGet(key, name)>>, cwaCity |-> name]

\* The handler up to its first await or return: the response sent (at most
\* one), the outbound call issued (at most one) and the local cwaCity.
BeforeAwait(key, token) ==
    IF ~Truthy(key)
      THEN [sent |-> <<ConfigErrorResponse>>, calls |-> <<>>, cwaCity |-> Undefined]
      ELSE LET cityParam == toLowerCase(token)
               name == cityMapGet(cityParam)
           IN  IF ~Truthy(name)
                 THEN [sent |-> <<UnsupportedCityResponse>>, calls |-> <<>>,
                       cwaCity |-> name]
                 ELSE [sent |-> <<>>, calls |-> <<AxiosGet(key, name)>>,
                       cwaCity |-> name]

Request(token) ==
    /\ pc = "idle"
    /\ city' = token
    /\ LET r == BeforeAwait(CWA_API_KEY, token)
       IN  /\ responses' = responses \o r.sent
           /\ outbound' = outbound \o r.calls
           /\ cwaCity' = r.cwaCity
           /\ pc' = IF r.calls = <<>> THEN "done" ELSE "awaiting"
    /\ UNCHANGED <<CWA_API_KEY, settled, built, consoleErrors, rejected>>

\* The catch block run on error; forecasts is weatherData.forecasts so far.
Caught(error, forecasts) ==
    LET c == Catch(error)
    IN  /\ consoleErrors' = consoleErrors + 1
        /\ responses' = responses \o c.sent
        /\ rejected' = c.thrown
        /\ built' = forecasts

\* The outbound call resolves with a 2xx response carrying data.
AxiosResolve(data) ==
    /\ pc = "awaiting"
    /\ settled' = [kind |-> "resolved", data |-> data]
    /\ LET r == AfterAwait(data, cwaCity)
       IN  IF r.thrown
             THEN Caught(TypeError, r.forecasts)
             ELSE /\ responses' = responses \o r.sent
                  /\ built' = r.forecasts
                  /\ UNCHANGED <<consoleErrors, rejected>>
    /\ pc' = "done"
    /\ UNCHANGED <<CWA_API_KEY, city, cwaCity, outbound>>

\* The outbound call rejects with the upstream's non-2xx response.
AxiosRejectResponse(status, data) ==
    /\ pc = "awaiting"
    /\ settled' = [kind |-> "rejected", error |-> AxiosError(status, data)]
    /\ Caught(AxiosError(status, data), <<>>)
    /\ pc' = "done"
    /\ UNCHANGED <<CWA_API_KEY, city, cwaCity, outbound>>

\* The outbound call rejects without a response: network, timeout, DNS.
AxiosRejectNoResponse ==
    /\ pc = "awaiting"
    /\ settled' = [kind |-> "rejected", error |-> NetworkError]
    /\ Caught(NetworkError, <<>>)
    /\ pc' = "done"
    /\ UNCHANGED <<CWA_API_KEY, city, cwaCity, outbound>>

\* The next request: nothing of an invocation outlives it.
NewInvocation ==
    /\ pc = "done"
    /\ pc' = "idle"
    /\ city' = <<>>
    /\ cwaCity' = Undefined
    /\ outbound' = <<>>
    /\ settled' = NotSettled
    /\ built' = <<>>
    /\ responses' = <<>>
    /\ consoleErrors' = 0
    /\ rejected' = FALSE
    /\ UNCHANGED CWA_API_KEY

\* The upstream's answers are enumerated only while a call is in flight.
Next ==
    \/ \E token \in Tokens : Request(token)
    \/ /\ pc = "awaiting"
       /\ \E data \in BodiesWithoutLocation : AxiosResolve(data)
    \/ /\ pc = "awaiting"
       /\ \E n \in LocationNames, k \in 0..MaxElems :
            \E es \in [1..k -> Elements] :
                AxiosResolve(Body(Array(<<Location(n, Array(es))>>)))
    \/ /\ pc = "awaiting"
       /\ \E n \in LocationNames, es \in FullLists :
            \/ AxiosResolve(Body(Array(<<Location(n, Array(es))>>)))
            \/ AxiosResolve(Body(Array(<<Location(n, Array(es)), DecoyLocation>>)))
    \/ \E status \in UpstreamStatuses, data \in ErrorBodies :
            AxiosRejectResponse(status, data)
    \/ AxiosRejectNoResponse
    \/ NewInvocation

Spec == Init /\ [][Next]_vars

(***************************************************************************)
(* A second specification for the alias lookup: every upper/lower-case     *)
(* spelling of every key of cityMap, and of one unsupported name, against  *)
(* a few answers of the upstream.                                          *)
(***************************************************************************)
\* A spelling of s: the letters chosen by upper in upper case, a capital K
\* written as the KELVIN SIGN when kelvin is chosen.
Spell(s, upper, kelvin) ==
    [i \in 1..Len(s) |->
        LET l == LowerChar(s[i])[1]
        IN  IF upper[i] /\ l \in DOMAIN LowerToUpper
              THEN IF kelvin /\ l = "k" THEN KelvinSign ELSE LowerToUpper[l]
              ELSE l]

NextCase ==
    \/ /\ pc = "idle"
       /\ \E k \in cityMapKeys \cup {Osaka} :
            \E upper \in [1..Len(k) -> BOOLEAN], kelvin \in BOOLEAN :
                Request(Spell(k, upper, kelvin))
    \/ \E token \in {DottedTaipei, SigmaToken} : Request(token)
    \/ \E data \in BodiesWithoutLocation : AxiosResolve(data)
    \/ \E es \in FullLists :
            AxiosResolve(Body(Array(<<Location(DecoyLocation.locationName, Array(es))>>)))
    \/ \E data \in ErrorBodies : AxiosRejectResponse(503, data)
    \/ AxiosRejectNoResponse
    \/ NewInvocation

SpecCase == Init /\ [][NextCase]_vars

(***************************************************************************)
(* Vocabulary of the properties.                                           *)
(***************************************************************************)
Entered == pc \in {"awaiting", "done"}

KeyConfigured == CWA_API_KEY.t = "string" /\ CWA_API_KEY.s # ""

\* The 22 lower-case keys of the alias table.
LowerCaseKeys == {k \in cityMapKeys : \A i \in 1..Len(k) : k[i] \notin DOMAIN UpperToLower}

SameLetters(a, b) ==
    /\ Len(a) = Len(b)
    /\ \A i \in 1..Len(a) :
          \/ a[i] = b[i]
          \/ a[i] \in DOMAIN UpperToLower /\ UpperToLower[a[i]] = b[i]
          \/ b[i] \in DOMAIN UpperToLower /\ UpperToLower[b[i]] = a[i]

Resolved == pc = "done" /\ settled.kind = "resolved"

UpstreamFailed ==
    pc = "done" /\ settled.kind = "rejected" /\ settled.error.response.t = "object"

NetworkFailed == pc = "done" /\ settled = [kind |-> "rejected", error |-> NetworkError]

HasLocationList(data) ==
    data.t = "object" /\ data.records.t = "object" /\ data.records.location.t = "array"

HasLocation(data) == HasLocationList(data) /\ Len(data.records.location.items) >= 1

HasElements(data) ==
    /\ HasLocation(data)
    /\ data.records.location.items[1].weatherElement.t = "array"
    /\ Len(data.records.location.items[1].weatherElement.items) >= 1

ElementsOf(data) == data.records.location.items[1].weatherElement.items

TimeCountOf(data) == Len(ElementsOf(data)[1].time)

Aligned(es) == \A k \in 1..Len(es) : Len(es[k].time) = Len(es[1].time)

IsSuccess(r) == r.status = 200 /\ DOMAIN r.body = {"success", "data"} /\ r.body.success

IsError(r) == "error" \in DOMAIN r.body

\* The parts a message is made of around a name.
Affixes == {"", "\\u7121\\u6CD5\\u53D6\\u5F97", "\\u5929\\u6C23\\u8CC7\\u6599"}

Contains(whole, part) == \E pre \in Affixes, post \in Affixes : whole = pre \o part \o post

\* The value the upstream reports for elementName at index i (from 0): that of
\* the last element of that name, "" when no element has that name.
Reported(es, elementName, i, suffix) ==
    LET ks == {k \in 1..Len(es) : es[k].elementName = elementName}
    IN  IF ks = {}
          THEN ""
          ELSE LET k == CHOOSE x \in ks : \A y \in ks : y <= x
               IN  es[k].time[i + 1].parameter.parameterName \o suffix

ExpectedEntry(es, i) ==
    [startTime |-> es[1].time[i + 1].startTime,
     endTime |-> es[1].time[i + 1].endTime,
     weather |-> Reported(es, "Wx", i, ""),
     rain |-> Reported(es, "PoP", i, "%"),
     minTemp |-> Reported(es, "MinT", i, "\\u00B0C"),
     maxTemp |-> Reported(es, "MaxT", i, "\\u00B0C"),
     comfort |-> Reported(es, "CI", i, ""),
     windSpeed |-> Reported(es, "WS", i, "")]

FieldOf == [Wx |-> "weather", PoP |-> "rain", MinT |-> "minTemp", MaxT |-> "maxTemp",
            CI |-> "comfort", WS |-> "windSpeed"]

(***************************************************************************)
(* Properties.                                                             *)
(***************************************************************************)

\* C1: with the credential configured, a token whose lower-cased form is not
\* one of the 22 lower-case keys is answered with status 400 and no outbound
\* call is issued.  The code falls through to Object.prototype for the token
\* "constructor": this statement is violated.
C1_UnsupportedTokenRefused ==
    (KeyConfigured /\ Entered /\ toLowerCase(city) \notin LowerCaseKeys)
        => /\ outbound = <<>>
           /\ pc = "done"
           /\ Len(responses) = 1
           /\ responses[1].status = 400

\* C2: every upper/lower-case spelling of the letters of a key of the alias
\* table resolves to that key's canonical name, and that name is the
\* locationName parameter of the one outbound call.
C2_CaseInsensitive ==
    (KeyConfigured /\ Entered)
        => \A e \in cityMap :
              SameLetters(city, e[1])
                  => /\ cwaCity = Str(e[2])
                     /\ Len(outbound) = 1
                     /\ outbound[1].params.locationName = Str(e[2])

C2_Witness ==
    /\ pc = "awaiting"
    /\ city = <<"h","S","I","n","c","H","u","c","O","U","n","t","Y">>
    /\ city \notin cityMapKeys
    /\ Len(outbound) = 1
    /\ outbound[1].params.locationName = Str("\\u65B0\\u7AF9\\u7E23")

\* C3: without a credential every invocation is answered with the 500
\* configuration error whatever the token, the alias lookup is not reached
\* and no outbound call is ever issued.
C3_MissingCredential ==
    (~KeyConfigured)
        => /\ outbound = <<>>
           /\ pc # "awaiting"
           /\ cwaCity = Undefined
           /\ settled = NotSettled
           /\ pc = "done" => /\ responses = <<ConfigErrorResponse>>
                             /\ responses[1].status = 500

C3_Witness ==
    /\ ~KeyConfigured
    /\ pc = "done"
    /\ toLowerCase(city) \in LowerCaseKeys
    /\ responses = <<ConfigErrorResponse>>

\* C4: when the outbound call succeeds and the location list of the body is
\* empty or absent, the answer is 404 with a message containing the canonical
\* location name.  The code answers an absent list with the generic 500:
\* this statement is violated.
C4_NoDataIs404 ==
    (Resolved /\ cwaCity.t = "string" /\ settled.data.t = "object"
       /\ settled.data.records.t = "object" /\ ~HasLocation(settled.data))
        => /\ Len(responses) = 1
           /\ responses[1].status = 404
           /\ Contains(responses[1].body.message, cwaCity.s)

\* C5: an upstream response of non-2xx status S is answered with exactly S,
\* the upstream's message field when present and the fallback otherwise, and
\* the raw error body as details, whatever the body.  The code throws out of
\* its catch block on a null or missing body and replaces an empty message by
\* the fallback: this statement is violated.
C5_UpstreamErrorForwarded ==
    UpstreamFailed
        => LET data == settled.error.response.data
           IN  /\ Len(responses) = 1
               /\ responses[1].status = settled.error.response.status
               /\ responses[1].body.message =
                     (IF data.t = "object" /\ data.hasMessage
                        THEN data.message
                        ELSE FallbackMessage)
               /\ responses[1].body.details = data

\* C6: an outbound call that fails without a response is answered with
\* status 500 and the retry-later message, the handler's promise does not
\* reject, and an invocation never issues a second outbound call.
C6_NetworkFault ==
    /\ Len(outbound) <= 1
    /\ NetworkFailed
          => /\ responses = <<ServerErrorResponse>>
             /\ responses[1].status = 500
             /\ responses[1].body.message = RetryLaterMessage
             /\ ~rejected
             /\ Len(outbound) = 1

C6_Witness ==
    /\ NetworkFailed
    /\ Len(outbound) = 1
    /\ Len(responses) = 1
    /\ responses[1].status = 500

\* C7: every error response carries an error label and a message, and its
\* status is 500, 400, 404 or the one forwarded from the upstream.  The 400
\* response of the code has no message: this statement is violated.
C7_ErrorEnvelope ==
    \A i \in 1..Len(responses) :
        IsError(responses[i])
            => /\ {"error", "message"} \subseteq DOMAIN responses[i].body
               /\ \/ responses[i].status \in {500, 400, 404}
                  \/ UpstreamFailed
                       /\ responses[i].status = settled.error.response.status

\* C8: for a document whose elements are index-aligned the success response
\* holds exactly timeCount entries in upstream order, entry i with the times
\* of window i of the first element, the Wx/CI/WS values unchanged, the PoP
\* value followed by "%" and the MinT/MaxT values followed by the degree
\* suffix; city is the upstream locationName and updateTime the upstream
\* datasetDescription.
C8_Normalization ==
    (Resolved /\ HasElements(settled.data) /\ Aligned(ElementsOf(settled.data)))
        => LET es == ElementsOf(settled.data)
           IN  responses =
                 <<Response(200,
                     [success |-> TRUE,
                      data |->
                        [city |-> settled.data.records.location.items[1].locationName,
                         updateTime |-> settled.data.records.datasetDescription,
                         forecasts |->
                            [i \in 1..TimeCountOf(settled.data) |->
                                ExpectedEntry(es, i - 1)]]])>>

\* All six elements, two windows each, for a token of another city.
C8_Witness ==
    /\ Resolved
    /\ HasElements(settled.data)
    /\ ElementsOf(settled.data) = [k \in 1..6 |-> Element(CanonicalOrder[k], 2, 0)]
    /\ cwaCity = Str("\\u81FA\\u5317\\u5E02")
    /\ Len(responses) = 1
    /\ IsSuccess(responses[1])
    /\ responses[1].body.data.city = "\\u9AD8\\u96C4\\u5E02"
    /\ Len(responses[1].body.data.forecasts) = 2
    /\ responses[1].body.data.forecasts[2].rain = "10%"
    /\ responses[1].body.data.forecasts[2].minTemp = "21\\u00B0C"

\* C9: a field whose element is absent for index i, the element missing or
\* having no window i, is the empty string in entry i and the request still
\* succeeds.  The code throws on an element that has no window i and answers
\* 500: this statement is violated.
C9_LenientDecoding ==
    (Resolved /\ HasElements(settled.data))
        => LET es == ElementsOf(settled.data)
           IN  /\ Len(responses) = 1
               /\ IsSuccess(responses[1])
               /\ Len(responses[1].body.data.forecasts) = TimeCountOf(settled.data)
               /\ \A i \in 1..TimeCountOf(settled.data), n \in ElementNames :
                     (\A k \in 1..Len(es) :
                         es[k].elementName = n => Len(es[k].time) < i)
                       => responses[1].body.data.forecasts[i][FieldOf[n]] = ""

\* C10: whatever document the upstream returns, malformed ones included,
\* exactly one response is sent, and it is either a success envelope holding
\* all timeCount entries or an error envelope holding no entries: entries
\* built before a failure never reach the client.
C10_NoPartialResults ==
    Resolved
        => /\ Len(responses) = 1
           /\ ~rejected
           /\ \/ /\ IsSuccess(responses[1])
                 /\ HasElements(settled.data)
                 /\ Len(responses[1].body.data.forecasts) = TimeCountOf(settled.data)
                 /\ responses[1].body.data.forecasts = built
              \/ /\ IsError(responses[1])
                 /\ responses[1].status # 200
                 /\ DOMAIN responses[1].body \subseteq {"error", "message"}

\* A failure at the second window, after the first entry was built.
C10_Witness ==
    /\ Resolved
    /\ HasElements(settled.data)
    /\ TimeCountOf(settled.data) = 2
    /\ Len(built) = 1
    /\ responses = <<ServerErrorResponse>>
====
